---- MODULE Spec2Model ----
(***************************************************************************)
(* read_calendar of robotica-tokio/python/robotica.py (the copy in        *)
(* robotica-backend/python/robotica.py has the same body after fetching    *)
(* the bytes from a URL): parse an iCalendar text, expand it over a        *)
(* window of dates, and turn every property of every retained event into   *)
(* a plain Python value.                                                   *)
(*                                                                         *)
(* Time is counted in hours: a datetime is a wall-clock hour count with    *)
(* an optional UTC offset (aware) or none (naive, "floating"); a date is   *)
(* a day number; a timedelta is a number of hours.                         *)
(***************************************************************************)
EXTENDS Integers, Sequences, FiniteSets, TLC

\* ------------------------------------------------------------- bounds
\* Longest calendar (number of VEVENT components) that is drawn as an input.
MaxEvents == 2
\* Window dates (start_date, end_date) are drawn from 0..MaxDay.
MaxDay == 2

\* UTC offsets, in hours, the host's local zone may have when a call runs.
HostOffsets == {0, 10}

\* ------------------------------------------------------ Python values
\* A Python object: its class, a number (hour count, day number, integer or
\* the identity of a text), and for a datetime whether it carries a tzinfo
\* and with which UTC offset.
PyObj(cls, n, aware, off) == [cls |-> cls, n |-> n, aware |-> aware, off |-> off]

None == PyObj("NoneType", 0, FALSE, 0)

\* The classes each class is an instance of (isinstance follows the MRO):
\* datetime is a subclass of date; vText and vUri are str; vInt and
\* vBoolean are int.
Bases(cls) ==
    CASE cls = "datetime"  -> {"datetime", "date"}
      [] cls = "date"      -> {"date"}
      [] cls = "timedelta" -> {"timedelta"}
      [] cls = "time"      -> {"time"}
      [] cls = "tuple"     -> {"tuple"}
      [] cls = "vText"     -> {"vText", "str"}
      [] cls = "vUri"      -> {"vUri", "str"}
      [] cls = "vInt"      -> {"vInt", "int"}
      [] cls = "vBoolean"  -> {"vBoolean", "int"}
      [] cls = "vFloat"    -> {"vFloat", "float"}
      [] cls = "list"      -> {"list"}
      [] OTHER             -> {cls}

isinstance(o, cls) == cls \in Bases(o.cls)

\* A property value of an event: either a vDDDTypes wrapper whose .dt is
\* obj (wrap = TRUE), or obj itself.
vDDDTypes(o) == [wrap |-> TRUE, obj |-> o]
Plain(o) == [wrap |-> FALSE, obj |-> o]

Dt(wall, off) == PyObj("datetime", wall, TRUE, off)
Naive(wall) == PyObj("datetime", wall, FALSE, 0)
Date(d) == PyObj("date", d, FALSE, 0)
Timedelta(h) == PyObj("timedelta", h, FALSE, 0)

\* timezone.utc
utc == 0

\* dt.astimezone(tz): the same instant on tz's wall clock. A naive dt is
\* presumed to be in the host's local time.
astimezone(dt, tz, hostOffset) ==
    LET from == IF dt.aware THEN dt.off ELSE hostOffset
    IN  PyObj("datetime", dt.n - from + tz, TRUE, tz)

\* ------------------------------------------------------------ errors
\* An exception: its type, and what its message identifies: the property
\* name and the value interpolated into it (None when the message does not
\* hold one).
Exception(type, key, val) == [type |-> type, key |-> key, val |-> val]

NoError == Exception("", "", None)

\* ------------------------------------------- the dispatch, lines 16-33
Ok(v) == [ok |-> TRUE, value |-> v, error |-> NoError]
Raise(e) == [ok |-> FALSE, value |-> None, error |-> e]

\* Variant: date tested before datetime (a datetime is a date too).
NormalizeDateFirst(i, v, hostOffset) ==
    IF v.wrap
    THEN LET dt == v.obj
         IN  IF isinstance(dt, "date") THEN Ok(dt)
             ELSE IF isinstance(dt, "datetime") THEN Ok(astimezone(dt, utc, hostOffset))
             ELSE IF isinstance(dt, "timedelta") THEN Ok(dt)
             ELSE Raise(Exception("RuntimeError", i, dt))
    ELSE IF isinstance(v.obj, "vText") THEN Ok(v.obj)
    ELSE IF isinstance(v.obj, "int") THEN Ok(v.obj)
    ELSE IF isinstance(v.obj, "str") THEN Ok(v.obj)
    ELSE Raise(Exception("RuntimeError", i, None))

\* Variant: a date is turned into the instant of its midnight.
NormalizeDateAsInstant(i, v, hostOffset) ==
    IF v.wrap
    THEN LET dt == v.obj
         IN  IF isinstance(dt, "datetime") THEN Ok(astimezone(dt, utc, hostOffset))
             ELSE IF isinstance(dt, "date")
                  THEN Ok(astimezone(Naive(dt.n * 24), utc, hostOffset))
             ELSE IF isinstance(dt, "timedelta") THEN Ok(dt)
             ELSE Raise(Exception("RuntimeError", i, dt))
    ELSE IF isinstance(v.obj, "vText") THEN Ok(v.obj)
    ELSE IF isinstance(v.obj, "int") THEN Ok(v.obj)
    ELSE IF isinstance(v.obj, "str") THEN Ok(v.obj)
    ELSE Raise(Exception("RuntimeError", i, None))

\* Variant: a value of no known class is stored as it is instead of raising.
NormalizePassUnknown(i, v, hostOffset) ==
    IF v.wrap
    THEN LET dt == v.obj
         IN  IF isinstance(dt, "datetime") THEN Ok(astimezone(dt, utc, hostOffset))
             ELSE IF isinstance(dt, "date") THEN Ok(dt)
             ELSE IF isinstance(dt, "timedelta") THEN Ok(dt)
             ELSE Ok(dt)
    ELSE Ok(v.obj)

\* The body of "for i in event.keys()": what json_data[i] is set to for
\* the property i with value v, or the exception raised.
Normalize(i, v, hostOffset) ==
    IF v.wrap
    THEN LET dt == v.obj
         IN  IF isinstance(dt, "datetime") THEN Ok(astimezone(dt, utc, hostOffset))
             ELSE IF isinstance(dt, "date") THEN Ok(dt)
             ELSE IF isinstance(dt, "timedelta") THEN Ok(dt)
             ELSE Raise(Exception("RuntimeError", i, dt))
    ELSE IF isinstance(v.obj, "vText") THEN Ok(v.obj)
    ELSE IF isinstance(v.obj, "int") THEN Ok(v.obj)
    ELSE IF isinstance(v.obj, "str") THEN Ok(v.obj)
    ELSE Raise(Exception("RuntimeError", i, None))

\* json_data[i] = value: a dict keeps its keys in insertion order, and
\* event.keys() holds no key twice.
SetItem(json_data, i, value) == Append(json_data, <<i, value>>)

\* Variant: result.insert(0, json_data)
InsertRecordFirst(result, json_data) == <<json_data>> \o result

\* result.append(json_data)
AppendRecord(result, json_data) == Append(result, json_data)

\* What the caller gets: the returned list, or nothing when an exception
\* leaves the function.
Returned(result) == [some |-> TRUE, records |-> result]
NotReturned == [some |-> FALSE, records |-> <<>>]

\* Variant: the records built so far are handed back when an exception is
\* raised.
ReturnPartial(result) == Returned(result)

\* An exception propagates out of read_calendar to the caller:
\* no except clause, no return.
Propagate(result) == NotReturned

\* ------------------------------------------------------------ inputs
vText(id) == Plain(PyObj("vText", id, FALSE, 0))
vInt(k) == Plain(PyObj("vInt", k, FALSE, 0))

\* The VEVENT components calendars are built from. Each is the ordered
\* list of <<name, value>> of its properties, no name twice:
\* all-day events, events at a zoned or a floating date-time, the same
\* instant written in two zones, and values of every class the dispatch
\* tells apart, the ones it rejects included.
EventPool ==
    { << <<"DTSTART", vDDDTypes(Date(0))>>, <<"SUMMARY", vText(1)>> >>,
      << <<"DTSTART", vDDDTypes(Date(1))>>, <<"SUMMARY", vText(2)>> >>,
      << <<"DTSTART", vDDDTypes(Dt(10, 10))>>, <<"DTSTAMP", vDDDTypes(Dt(0, 0))>> >>,
      << <<"DTSTART", vDDDTypes(Dt(34, 10))>>, <<"DTEND", vDDDTypes(Dt(25, 0))>> >>,
      << <<"DTSTART", vDDDTypes(Naive(34))>>, <<"SUMMARY", vText(1)>> >>,
      << <<"DTSTART", vDDDTypes(Date(0))>>, <<"DURATION", vDDDTypes(Timedelta(2))>> >>,
      << <<"DTSTART", vDDDTypes(Date(1))>>, <<"SEQUENCE", vInt(3)>>,
         <<"URL", Plain(PyObj("vUri", 7, FALSE, 0))>> >>,
      << <<"SUMMARY", vText(2)>>, <<"ATTENDEE", Plain(PyObj("list", 2, FALSE, 0))>>,
         <<"DTSTART", vDDDTypes(Date(0))>> >>,
      << <<"DTSTART", vDDDTypes(Date(1))>>, <<"X-PERCENT", Plain(PyObj("vFloat", 5, FALSE, 0))>> >>,
      << <<"DTSTART", vDDDTypes(Dt(24, 0))>>, <<"X-AT", vDDDTypes(PyObj("time", 9, FALSE, 0))>> >>,
      << <<"DTSTART", vDDDTypes(Date(0))>>, <<"X-SPAN", vDDDTypes(PyObj("tuple", 4, FALSE, 0))>> >> }

RECURSIVE SeqsUpTo(_, _)
SeqsUpTo(S, n) ==
    IF n = 0 THEN {<<>>}
    ELSE LET shorter == SeqsUpTo(S, n - 1)
         IN  shorter \cup {Append(q, x) : q \in {r \in shorter : Len(r) = n - 1}, x \in S}

\* The calendar text: well-formed with its components, or not iCalendar.
IcalStrings ==
    {[wellformed |-> FALSE, components |-> <<>>]}
    \cup {[wellformed |-> TRUE, components |-> c] : c \in SeqsUpTo(EventPool, MaxEvents)}

WindowDates == 0..MaxDay

\* ------------------------------------------------- the library calls
\* icalendar.Calendar.from_ical: the components of a well-formed text, a
\* ValueError otherwise.
from_ical(ical_string) ==
    IF ical_string.wellformed
    THEN [ok |-> TRUE, calendar |-> ical_string.components, error |-> NoError]
    ELSE [ok |-> FALSE, calendar |-> <<>>, error |-> Exception("ValueError", "", None)]

\* The day an event starts on: its DTSTART date, or the wall-clock day of
\* its DTSTART date-time.
StartDay(event) ==
    LET j == CHOOSE j \in DOMAIN event : event[j][1] = "DTSTART"
        o == event[j][2].obj
    IN  IF isinstance(o, "datetime") THEN o.n \div 24 ELSE o.n

\* recurring_ical_events.of(calendar).between(start, end): the events that
\* start within [start, end), in document order. It compares; it never
\* rejects a window.
between(calendar, start, end) ==
    SelectSeq(calendar, LAMBDA e : start <= StartDay(e) /\ StartDay(e) < end)

\* ------------------------------------------------------------- state
VARIABLES
    ical_string,   \* argument: the calendar text
    start_date,    \* argument: first day of the window
    end_date,      \* argument: day the window ends before
    hostOffset,    \* UTC offset of the host's local zone while the call runs
    pc,            \* "called", "parsed", "loop", "done" or "raised"
    calendar,      \* line 10
    events,        \* line 11
    result,        \* line 12
    json_data,     \* line 14
    ei,            \* position of "for event in events"
    ki,            \* position of "for i in event.keys()"
    error,         \* the exception that left the function, NoError if none
    returned,      \* what the caller received
    prev           \* outcome of the call before this one, which had the same arguments

vars == <<ical_string, start_date, end_date, hostOffset, pc, calendar, events,
          result, json_data, ei, ki, error, returned, prev>>

inputs == <<ical_string, start_date, end_date>>

NoPrev == [valid |-> FALSE, returned |-> NotReturned, error |-> NoError]

Enter ==
    /\ pc = "called"
    /\ calendar = <<>>
    /\ events = <<>>
    /\ result = <<>>
    /\ json_data = <<>>
    /\ ei = 1
    /\ ki = 1
    /\ error = NoError
    /\ returned = NotReturned

Init ==
    /\ ical_string \in IcalStrings
    /\ start_date \in WindowDates
    /\ end_date \in WindowDates
    /\ hostOffset \in HostOffsets
    /\ prev = NoPrev
    /\ Enter

\* Line 10: calendar = icalendar.Calendar.from_ical(ical_string)
Parse ==
    /\ pc = "called"
    /\ LET r == from_ical(ical_string)
       IN  IF r.ok
           THEN /\ calendar' = r.calendar
                /\ pc' = "parsed"
                /\ UNCHANGED <<error, returned>>
           ELSE /\ error' = r.error
                /\ returned' = Propagate(result)
                /\ pc' = "raised"
                /\ UNCHANGED calendar
    /\ UNCHANGED <<inputs, hostOffset, events, result, json_data, ei, ki, prev>>

\* Lines 11-12: the window goes to the expansion as given; result = []
Expand ==
    /\ pc = "parsed"
    /\ events' = between(calendar, start_date, end_date)
    /\ result' = <<>>
    /\ ei' = 1
    /\ ki' = 1
    /\ json_data' = <<>>
    /\ pc' = "loop"
    /\ UNCHANGED <<inputs, hostOffset, calendar, error, returned, prev>>

\* Lines 15-33: one turn of "for i in event.keys()"
NormalizeProperty ==
    /\ pc = "loop"
    /\ ei <= Len(events)
    /\ ki <= Len(events[ei])
    /\ LET i == events[ei][ki][1]
           r == Normalize(i, events[ei][ki][2], hostOffset)
       IN  IF r.ok
           THEN /\ json_data' = SetItem(json_data, i, r.value)
                /\ ki' = ki + 1
                /\ UNCHANGED <<pc, error, returned>>
           ELSE /\ error' = r.error
                /\ returned' = Propagate(result)
                /\ pc' = "raised"
                /\ UNCHANGED <<json_data, ki>>
    /\ UNCHANGED <<inputs, hostOffset, calendar, events, result, ei, prev>>

\* Line 35, then lines 13-14 for the next event
NextEvent ==
    /\ pc = "loop"
    /\ ei <= Len(events)
    /\ ki > Len(events[ei])
    /\ result' = AppendRecord(result, json_data)
    /\ ei' = ei + 1
    /\ ki' = 1
    /\ json_data' = <<>>
    /\ UNCHANGED <<inputs, hostOffset, pc, calendar, events, error, returned, prev>>

\* Line 36: return result
Return ==
    /\ pc = "loop"
    /\ ei > Len(events)
    /\ returned' = Returned(result)
    /\ pc' = "done"
    /\ UNCHANGED <<inputs, hostOffset, calendar, events, result, json_data, ei, ki,
                   error, prev>>

Finished == pc \in {"done", "raised"}

\* The caller calls again with the same arguments, in whatever local zone
\* the host has by then. The function keeps nothing from the call before:
\* every local starts afresh.
CallAgain ==
    /\ Finished
    /\ hostOffset' \in HostOffsets
    /\ prev' = [valid |-> TRUE, returned |-> returned, error |-> error]
    /\ pc' = "called"
    /\ calendar' = <<>>
    /\ events' = <<>>
    /\ result' = <<>>
    /\ json_data' = <<>>
    /\ ei' = 1
    /\ ki' = 1
    /\ error' = NoError
    /\ returned' = NotReturned
    /\ UNCHANGED inputs

Next ==
    \/ Parse
    \/ Expand
    \/ NormalizeProperty
    \/ NextEvent
    \/ Return
    \/ CallAgain

Spec == Init /\ [][Next]_vars

\* ------------------------------------------------------------ claims
\* The names of a record or of an event, in order.
Names(props) == [j \in DOMAIN props |-> props[j][1]]

\* The value a record or an event holds under a name.
Get(props, name) ==
    LET j == CHOOSE j \in DOMAIN props : props[j][1] = name
    IN  props[j][2]

\* The five canonical kinds a value can be of.
KindsOf(v) ==
    {k \in {"instant", "date", "duration", "integer", "text"} :
        \/ k = "instant" /\ isinstance(v, "datetime") /\ v.aware /\ v.off = 0
        \/ k = "date" /\ isinstance(v, "date") /\ ~isinstance(v, "datetime")
        \/ k = "duration" /\ isinstance(v, "timedelta")
        \/ k = "integer" /\ isinstance(v, "int")
        \/ k = "text" /\ isinstance(v, "str")}

\* A property value of one of the shapes the canonical model has a kind for.
Mappable(v) ==
    IF v.wrap
    THEN v.obj.cls \in {"datetime", "date", "timedelta"}
    ELSE Bases(v.obj.cls) \cap {"str", "int"} # {}

IsDateTime(v) == v.wrap /\ v.obj.cls = "datetime"
IsCivilDate(v) == v.wrap /\ v.obj.cls = "date"

\* The absolute instant (UTC hour count) a date-time denotes; a floating
\* one is read on the host's clock, as Python does.
Instant(dt) == dt.n - (IF dt.aware THEN dt.off ELSE hostOffset)

\* Every <<event index, property index>> of the retained events.
Props == UNION {{<<k, j>> : j \in DOMAIN events[k]} : k \in DOMAIN events}

\* C1: a call that returns normally gives every record exactly the property
\* names of its occurrence, every value of exactly one of the five canonical
\* kinds; and it returns normally only if every property of every retained
\* occurrence has a mappable shape (otherwise the call has failed).
C1_CanonicalRecords ==
    pc = "done" =>
        /\ Len(returned.records) = Len(events)
        /\ \A k \in DOMAIN events :
              /\ Names(returned.records[k]) = Names(events[k])
              /\ \A j \in DOMAIN events[k] :
                    /\ Mappable(events[k][j][2])
                    /\ Cardinality(KindsOf(returned.records[k][j][2])) = 1

\* A normal return of two records holding a date, a text and an instant.
C1_Witness ==
    /\ pc = "done"
    /\ Len(returned.records) = 2
    /\ \E k \in 1..2 : \E j \in DOMAIN returned.records[k] :
          KindsOf(returned.records[k][j][2]) = {"text"}
    /\ \E k \in 1..2 : \E j \in DOMAIN returned.records[k] :
          KindsOf(returned.records[k][j][2]) = {"instant"}

\* C2: every date-time property of a retained occurrence is returned as a
\* UTC-zoned instant denoting the same absolute instant, and two date-times
\* denoting the same instant in different zones are returned identical.
C2_UtcNormalization ==
    pc = "done" =>
        /\ \A p \in Props :
              LET v == events[p[1]][p[2]][2]
                  out == Get(returned.records[p[1]], events[p[1]][p[2]][1])
              IN  IsDateTime(v) =>
                     /\ out.cls = "datetime"
                     /\ out.aware
                     /\ out.off = 0
                     /\ out.n = Instant(v.obj)
        /\ \A p, q \in Props :
              LET v == events[p[1]][p[2]][2]
                  w == events[q[1]][q[2]][2]
              IN  (IsDateTime(v) /\ IsDateTime(w) /\ Instant(v.obj) = Instant(w.obj)) =>
                     Get(returned.records[p[1]], events[p[1]][p[2]][1])
                       = Get(returned.records[q[1]], events[q[1]][q[2]][1])

\* A normal return for an event whose two date-times are the same instant
\* written with different UTC offsets.
C2_Witness ==
    /\ pc = "done"
    /\ \E p, q \in Props :
          LET v == events[p[1]][p[2]][2]
              w == events[q[1]][q[2]][2]
          IN  /\ IsDateTime(v) /\ IsDateTime(w)
              /\ v.obj.aware /\ w.obj.aware
              /\ v.obj.off # w.obj.off
              /\ Instant(v.obj) = Instant(w.obj)

\* C3: a calendar-date property of a retained occurrence is returned as the
\* same civil date: a date, not a datetime, with no time zone.
C3_CivilDatePassThrough ==
    pc = "done" =>
        \A p \in Props :
            LET v == events[p[1]][p[2]][2]
                out == Get(returned.records[p[1]], events[p[1]][p[2]][1])
            IN  IsCivilDate(v) =>
                   /\ out.cls = "date"
                   /\ out.n = v.obj.n
                   /\ ~out.aware

\* A normal return holding the record of an all-day event.
C3_Witness ==
    /\ pc = "done"
    /\ \E p \in Props : IsCivilDate(events[p[1]][p[2]][2])

\* C4: every error is fatal to the whole call: the caller receives either
\* the records of all retained occurrences from a call that ran to its end,
\* or nothing at all, also when records had been built before the error.
C4_NoPartialResults ==
    /\ returned.some => (pc = "done" /\ Len(returned.records) = Len(events))
    /\ pc = "raised" => (returned = NotReturned /\ error # NoError)
    /\ pc = "done" => (returned.some /\ error = NoError)

\* A call that failed after a first occurrence had been normalized.
C4_Witness ==
    /\ pc = "raised"
    /\ error.type = "RuntimeError"
    /\ Len(result) >= 1

\* C6 (as claimed): a call with start_date > end_date does not return
\* normally.
C6_InvertedWindowFails == start_date > end_date => pc # "done"

\* C7 (as claimed): the error for a property that cannot be mapped names
\* both the property and its value, on every failing path of the dispatch.
C7_ErrorNamesKeyAndValue ==
    (pc = "raised" /\ error.type = "RuntimeError") =>
        /\ error.key = events[ei][ki][1]
        /\ error.val = events[ei][ki][2].obj

\* C8: a normal return holds one record per retained occurrence, in the
\* order of the occurrences: none moved, repeated or left out.
C8_RecordOrder ==
    pc = "done" =>
        /\ Len(returned.records) = Len(events)
        /\ \A k \in DOMAIN events :
              /\ Names(returned.records[k]) = Names(events[k])
              /\ \A j \in DOMAIN events[k] :
                    LET v == events[k][j][2]
                        out == returned.records[k][j][2]
                    IN  IF IsDateTime(v) THEN out.n = Instant(v.obj) ELSE out = v.obj

\* A normal return for two retained occurrences that differ.
C8_Witness ==
    /\ pc = "done"
    /\ Len(events) = 2
    /\ events[1] # events[2]

\* C10 (as claimed): two calls with the same calendar and the same window
\* end the same way: the same records or the same error.
C10_SameInputsSameOutcome ==
    (prev.valid /\ pc \in {"done", "raised"}) =>
        /\ returned = prev.returned
        /\ error = prev.error

====
